---- MODULE Spec2Model ----
(***************************************************************************)
(* Model of dashcam-gps-extract: the Novatek GPS record validator and      *)
(* decoder (src/src/novatek_gps.rs) and the extraction pipeline            *)
(* (src/src/main.rs).                                                      *)
(*                                                                         *)
(* Representation choices:                                                 *)
(*  - a byte is an integer 0..255, a buffer a sequence of bytes;           *)
(*  - a u32 is the pair <<hi, lo>> of its 16-bit halves, so that values    *)
(*    above 2^31 are representable and wrap-around is explicit;            *)
(*  - a str is the sequence of its UTF-8 bytes;                            *)
(*  - an f32/f64 is the exact rational n / 2^FracBits (record FFin), a     *)
(*    non-finite value (FNonFinite) or a finite value outside the grid     *)
(*    (FOther); floating-point rounding is not modelled.                   *)
(***************************************************************************)
EXTENDS Integers, Sequences, FiniteSets, TLC

(***************************************************************************)
(* Bounds of the model.                                                    *)
(***************************************************************************)
\* number of fractional binary digits kept for f32/f64 values
FracBits == 1
\* dms_to_deg is applied to every packed value with degrees 0..MaxDeg
MaxDeg == 2
\* number of entries the glob iterator yields
MaxGlob == 3

(***************************************************************************)
(* Integer helpers.                                                        *)
(***************************************************************************)
RECURSIVE Pow2(_)
Pow2(n) == IF n = 0 THEN 1 ELSE 2 * Pow2(n - 1)

\* Rust's `%` on numbers: the remainder has the sign of the dividend.
Rem(a, b) == IF a >= 0 THEN a % b ELSE -((-a) % b)

\* a usize/u32 value below 2^31 as a pair of 16-bit halves
ToU32(n) == <<n \div 65536, n % 65536>>

\* byteorder::BigEndian::read_u32 on a four-byte slice
BigEndian_read_u32(s) == <<s[1] * 256 + s[2], s[3] * 256 + s[4]>>

\* byteorder::LittleEndian::read_u32 on a four-byte slice
LittleEndian_read_u32(s) == <<s[4] * 256 + s[3], s[2] * 256 + s[1]>>

\* &data[lo..hi]
Slice(data, range) == SubSeq(data, range[1] + 1, range[2])

(***************************************************************************)
(* str::from_utf8: well-formedness of a byte sequence as UTF-8.            *)
(***************************************************************************)
IsCont(b) == b >= 128 /\ b <= 191

RECURSIVE Utf8Valid(_)
Utf8Valid(s) ==
    IF Len(s) = 0 THEN TRUE
    ELSE LET b == s[1]
             n == Len(s)
         IN  IF b < 128 THEN Utf8Valid(Tail(s))
             ELSE IF b >= 194 /\ b <= 223
                  THEN n >= 2 /\ IsCont(s[2]) /\ Utf8Valid(SubSeq(s, 3, n))
             ELSE IF b >= 224 /\ b <= 239
                  THEN /\ n >= 3
                       /\ IF b = 224 THEN s[2] >= 160 /\ s[2] <= 191
                          ELSE IF b = 237 THEN s[2] >= 128 /\ s[2] <= 159
                          ELSE IsCont(s[2])
                       /\ IsCont(s[3])
                       /\ Utf8Valid(SubSeq(s, 4, n))
             ELSE IF b >= 240 /\ b <= 244
                  THEN /\ n >= 4
                       /\ IF b = 240 THEN s[2] >= 144 /\ s[2] <= 191
                          ELSE IF b = 244 THEN s[2] >= 128 /\ s[2] <= 143
                          ELSE IsCont(s[2])
                       /\ IsCont(s[3])
                       /\ IsCont(s[4])
                       /\ Utf8Valid(SubSeq(s, 5, n))
             ELSE FALSE

(***************************************************************************)
(* novatek_gps.rs: field layout and constants.                             *)
(***************************************************************************)
BOX_SIZE == <<0, 4>>
BOX_TYPE_FIELD == <<4, 8>>
MAGIC == <<8, 12>>
HR == <<16, 20>>
MIN == <<20, 24>>
SEC == <<24, 28>>
YEAR == <<28, 32>>
MONTH == <<32, 36>>
DAY == <<36, 40>>
SAT_LOCK == 40
LAT_HEMI == 41
LON_HEMI == 42
LAT == <<44, 48>>
LON == <<48, 52>>
SPEED == <<52, 56>>
BEARING == <<56, 60>>
REST == 60

MIN_SIZE == REST
\* "free"
BOX_TYPE == <<102, 114, 101, 101>>
\* "GPS "
MAGIC_WORD == <<71, 80, 83, 32>>
YEAR_OFFSET == 2000

(***************************************************************************)
(* Results.  Ok and the variants of novatek_gps::Error.                    *)
(***************************************************************************)
Ok == [kind |-> "Ok"]
MissingBytes == [kind |-> "MissingBytes"]
InvalidBoxSize(buf_len, box_size) ==
    [kind |-> "InvalidBoxSize", buf_len |-> buf_len, box_size |-> box_size]
Uft8 == [kind |-> "Uft8"]
InvalidBoxType(actual, expected) ==
    [kind |-> "InvalidBoxType", actual |-> actual, expected |-> expected]
InvalidMagicWord(actual, expected) ==
    [kind |-> "InvalidMagicWord", actual |-> actual, expected |-> expected]
NoSatLock == [kind |-> "NoSatLock"]
InvalidHemisphere == [kind |-> "InvalidHemisphere"]
OkVal(v) == [kind |-> "Ok", val |-> v]
None == [kind |-> "None"]
IsOk(r) == r.kind = "Ok"

(***************************************************************************)
(* Field accessors.                                                        *)
(***************************************************************************)
box_size(data) == BigEndian_read_u32(Slice(data, BOX_SIZE))

\* variant: reads the box type from the magic word's field
box_type_from_magic(data) ==
    LET typ == Slice(data, MAGIC)
    IN  IF Utf8Valid(typ) THEN OkVal(typ) ELSE Uft8

box_type(data) ==
    LET typ == Slice(data, BOX_TYPE_FIELD)
    IN  IF Utf8Valid(typ) THEN OkVal(typ) ELSE Uft8

magic_word(data) ==
    LET m == Slice(data, MAGIC)
    IN  IF Utf8Valid(m) THEN OkVal(m) ELSE Uft8

hour(data) == LittleEndian_read_u32(Slice(data, HR))
minute(data) == LittleEndian_read_u32(Slice(data, MIN))
second(data) == LittleEndian_read_u32(Slice(data, SEC))
month(data) == LittleEndian_read_u32(Slice(data, MONTH))
day(data) == LittleEndian_read_u32(Slice(data, DAY))

\* YEAR_OFFSET + read_u32(..) in u32 arithmetic: with overflow checks the
\* addition panics when it overflows, without them it wraps modulo 2^32.
year(data, overflow_checks) ==
    LET y == LittleEndian_read_u32(Slice(data, YEAR))
        lo == y[2] + YEAR_OFFSET
        hi == y[1] + (lo \div 65536)
    IN  IF hi >= 65536 /\ overflow_checks
        THEN [kind |-> "panic"]
        ELSE OkVal(<<hi % 65536, lo % 65536>>)

sat_lock(data) == data[SAT_LOCK + 1] = 65

latitude_hemisphere(data) ==
    LET h == data[LAT_HEMI + 1]
    IN  IF h = 78 THEN OkVal("North")
        ELSE IF h = 83 THEN OkVal("South")
        ELSE InvalidHemisphere

longitude_hemisphere(data) ==
    LET h == data[LON_HEMI + 1]
    IN  IF h = 69 THEN OkVal("East")
        ELSE IF h = 87 THEN OkVal("West")
        ELSE InvalidHemisphere

(***************************************************************************)
(* The validator.                                                          *)
(***************************************************************************)
check_len(data) ==
    IF Len(data) < MIN_SIZE THEN MissingBytes ELSE Ok

\* variant: rejects only a declared length above the buffer's length
check_box_size_only_larger(data) ==
    LET bs == box_size(data)
        buf_len == ToU32(Len(data))
    IN  IF bs[1] > buf_len[1] \/ (bs[1] = buf_len[1] /\ bs[2] > buf_len[2])
        THEN InvalidBoxSize(Len(data), bs) ELSE Ok

check_box_size(data) ==
    LET bs == box_size(data)
        buf_len == ToU32(Len(data))
    IN  IF bs # buf_len THEN InvalidBoxSize(Len(data), bs) ELSE Ok

check_box_type(data) ==
    LET r == box_type(data)
    IN  IF ~IsOk(r) THEN r
        ELSE IF r.val # BOX_TYPE THEN InvalidBoxType(r.val, BOX_TYPE)
        ELSE Ok

check_magic_word(data) ==
    LET r == magic_word(data)
    IN  IF ~IsOk(r) THEN r
        ELSE IF r.val # MAGIC_WORD THEN InvalidMagicWord(r.val, MAGIC_WORD)
        ELSE Ok

\* variant: accepts a record without satellite lock
check_sat_lock_always(data) == Ok

check_sat_lock(data) == IF sat_lock(data) THEN Ok ELSE NoSatLock

check_hemisphere(data) ==
    LET a == latitude_hemisphere(data)
    IN  IF ~IsOk(a) THEN a
        ELSE LET b == longitude_hemisphere(data)
             IN  IF ~IsOk(b) THEN b ELSE Ok

\* variant: the satellite lock is checked before the magic word
new_lock_before_magic(data) ==
    LET r1 == check_len(data) IN
    IF ~IsOk(r1) THEN r1 ELSE
    LET r2 == check_box_size(data) IN
    IF ~IsOk(r2) THEN r2 ELSE
    LET r3 == check_box_type(data) IN
    IF ~IsOk(r3) THEN r3 ELSE
    LET r5 == check_sat_lock(data) IN
    IF ~IsOk(r5) THEN r5 ELSE
    LET r4 == check_magic_word(data) IN
    IF ~IsOk(r4) THEN r4 ELSE
    check_hemisphere(data)

\* NovatekGps::new: the `?` chain; Ok stands for Ok(g).
new(data) ==
    LET r1 == check_len(data) IN
    IF ~IsOk(r1) THEN r1 ELSE
    LET r2 == check_box_size(data) IN
    IF ~IsOk(r2) THEN r2 ELSE
    LET r3 == check_box_type(data) IN
    IF ~IsOk(r3) THEN r3 ELSE
    LET r4 == check_magic_word(data) IN
    IF ~IsOk(r4) THEN r4 ELSE
    LET r5 == check_sat_lock(data) IN
    IF ~IsOk(r5) THEN r5 ELSE
    check_hemisphere(data)

(***************************************************************************)
(* chrono: NaiveDate::from_ymd and NaiveDate::and_hms.  Both panic when    *)
(* the fields do not name a date or a time of day.                         *)
(***************************************************************************)
\* chrono::naive::date::{MIN_YEAR, MAX_YEAR}: i32::MIN >> 13, i32::MAX >> 13
MIN_YEAR == -262144
MAX_YEAR == 262143

\* `x as i32` of a u32
AsI32(u) == IF u[1] < 32768 THEN u[1] * 65536 + u[2]
            ELSE (u[1] - 65536) * 65536 + u[2]

IsLeap(y) == y % 4 = 0 /\ (y % 100 # 0 \/ y % 400 = 0)

DaysIn(y, m) == IF m = 2 THEN (IF IsLeap(y) THEN 29 ELSE 28)
                ELSE IF m \in {4, 6, 9, 11} THEN 30 ELSE 31

\* does from_ymd(y, m, d) return (TRUE) or panic (FALSE); m and d are u32
from_ymd_ok(y, m, d) ==
    /\ y >= MIN_YEAR /\ y <= MAX_YEAR
    /\ m[1] = 0 /\ m[2] >= 1 /\ m[2] <= 12
    /\ d[1] = 0 /\ d[2] >= 1 /\ d[2] <= DaysIn(y, m[2])

\* does and_hms(h, mi, s) return (TRUE) or panic (FALSE)
and_hms_ok(h, mi, s) ==
    /\ h[1] = 0 /\ h[2] < 24
    /\ mi[1] = 0 /\ mi[2] < 60
    /\ s[1] = 0 /\ s[2] < 60

Panic == [kind |-> "panic"]

\* NovatekGps::datetime: a NaiveDateTime as <<year, month, day, seconds of
\* the day>>, or a panic.
datetime(data, overflow_checks) ==
    LET y == year(data, overflow_checks)
    IN  IF ~IsOk(y) THEN Panic
        ELSE IF ~from_ymd_ok(AsI32(y.val), month(data), day(data)) THEN Panic
        ELSE IF ~and_hms_ok(hour(data), minute(data), second(data)) THEN Panic
        ELSE OkVal(<<AsI32(y.val), month(data)[2], day(data)[2],
                     hour(data)[2] * 3600 + minute(data)[2] * 60
                        + second(data)[2]>>)

\* the derived Ord of NaiveDateTime: date first, then time of day
RECURSIVE LexLess(_, _)
LexLess(a, b) ==
    IF Len(b) = 0 THEN FALSE
    ELSE IF Len(a) = 0 THEN TRUE
    ELSE IF a[1] < b[1] THEN TRUE
    ELSE IF a[1] > b[1] THEN FALSE
    ELSE LexLess(Tail(a), Tail(b))

(***************************************************************************)
(* Floating-point values and the conversions.                              *)
(***************************************************************************)
FFin(n, den) == [cls |-> "fin", n |-> n, den |-> den]
FNonFinite == [cls |-> "nonfinite"]
FOther == [cls |-> "other"]

\* byteorder::LittleEndian::read_f32 (and the lossless `as f64`): sign,
\* 8-bit exponent, 23-bit fraction.
LittleEndian_read_f32(s) ==
    LET bits == LittleEndian_read_u32(s)
        neg == bits[1] >= 32768
        e == (bits[1] % 32768) \div 128
        m == (bits[1] % 128) * 65536 + bits[2]
        sig == 8388608 + m
        sh == e - 150 + FracBits
        sgn(x) == IF neg THEN -x ELSE x
    IN  IF e = 255 THEN FNonFinite
        ELSE IF e = 0 THEN (IF m = 0 THEN FFin(0, Pow2(FracBits)) ELSE FOther)
        ELSE IF sh >= 0
             THEN (IF sh <= 4
                   THEN FFin(sgn(sig * Pow2(sh)), Pow2(FracBits)) ELSE FOther)
        ELSE IF -sh <= 23 /\ sig % Pow2(-sh) = 0
             THEN FFin(sgn(sig \div Pow2(-sh)), Pow2(FracBits))
        ELSE FOther

latitude(data) == LittleEndian_read_f32(Slice(data, LAT))
longitude(data) == LittleEndian_read_f32(Slice(data, LON))
speed(data) == LittleEndian_read_f32(Slice(data, SPEED))
bearing(data) == LittleEndian_read_f32(Slice(data, BEARING))

\* variant: the minutes are divided by 100 instead of 60
dms_to_deg_minutes_by_100(dms, invert) ==
    IF dms.cls # "fin" THEN dms
    ELSE LET min == Rem(dms.n, 100 * dms.den)
             deg == dms.n - min
             out == 3 * deg + 3 * min
         IN  FFin(IF invert THEN -out ELSE out, 300 * dms.den)

\* min = dms % 100.0; deg = dms - min; out = deg / 100.0 + min / 60.0
dms_to_deg(dms, invert) ==
    IF dms.cls # "fin" THEN dms
    ELSE LET min == Rem(dms.n, 100 * dms.den)
             deg == dms.n - min
             out == 3 * deg + 5 * min
         IN  FFin(IF invert THEN -out ELSE out, 300 * dms.den)

latitude_deg(data) ==
    LET hemi == latitude_hemisphere(data)
    IN  IF ~IsOk(hemi) THEN hemi
        ELSE OkVal(dms_to_deg(latitude(data), hemi.val = "South"))

longitude_deg(data) ==
    LET hemi == longitude_hemisphere(data)
    IN  IF ~IsOk(hemi) THEN hemi
        ELSE OkVal(dms_to_deg(longitude(data), hemi.val = "West"))

\* self.speed() as f64 * 0.514444
speed_mps(data) ==
    LET k == speed(data)
    IN  IF k.cls # "fin" THEN k
        ELSE IF k.n > 4000 \/ k.n < -4000 THEN FOther
        ELSE FFin(k.n * 514444, k.den * 1000000)

(***************************************************************************)
(* Input buffers.  A record is laid out field by field as in `mod field`   *)
(* and cut or zero-padded to the chosen length.                            *)
(***************************************************************************)
LE32(u) == <<u[2] % 256, u[2] \div 256, u[1] % 256, u[1] \div 256>>
BE32(u) == <<u[1] \div 256, u[1] % 256, u[2] \div 256, u[2] % 256>>
Zeros(n) == [i \in 1..n |-> 0]

MkBuf(f) ==
    LET full == BE32(f.declared) \o f.typ \o f.magic \o Zeros(4)
                \o LE32(f.hr) \o LE32(f.min) \o LE32(f.sec)
                \o LE32(f.year) \o LE32(f.month) \o LE32(f.day)
                \o <<f.lock, f.lath, f.lonh, 0>>
                \o f.lat \o f.lon \o f.speed \o f.bearing
    IN  IF f.len <= 60 THEN SubSeq(full, 1, f.len)
        ELSE full \o Zeros(f.len - 60)

\* f32 encodings, little-endian
F32_0 == <<0, 0, 0, 0>>
F32_1 == <<0, 0, 128, 63>>
F32_90 == <<0, 0, 180, 66>>
F32_4730 == <<0, 208, 147, 69>>
F32_4730_5 == <<0, 212, 147, 69>>
F32_11706_5 == <<0, 234, 54, 70>>
F32_NaN == <<0, 0, 192, 127>>

\* a well-formed record: 2021-08-09 10:00:00, N 47 30.0, W 117 06.5
Good ==
    [len |-> 60, declared |-> ToU32(60), typ |-> BOX_TYPE, magic |-> MAGIC_WORD,
     hr |-> ToU32(10), min |-> ToU32(0), sec |-> ToU32(0),
     year |-> ToU32(21), month |-> ToU32(8), day |-> ToU32(9),
     lock |-> 65, lath |-> 78, lonh |-> 87,
     lat |-> F32_4730, lon |-> F32_11706_5, speed |-> F32_1, bearing |-> F32_90]

\* every combination of the fields the validator looks at
ValidatorBufs ==
    { MkBuf([Good EXCEPT !.len = l, !.declared = d, !.typ = t, !.magic = m,
                         !.lock = k, !.lath = a, !.lonh = o]) :
        l \in {0, 3, 4, 59, 60, 64},
        d \in {ToU32(59), ToU32(60), ToU32(64), <<15360, 0>>},
        t \in {BOX_TYPE, <<102, 114, 101, 102>>, <<255, 114, 101, 101>>,
               <<195, 169, 101, 101>>},
        m \in {MAGIC_WORD, <<71, 80, 83, 0>>, <<128, 80, 83, 32>>},
        k \in {65, 86},
        a \in {78, 83, 88},
        o \in {69, 87, 0} }

\* accepted headers with every combination of the date and time fields
DateBufs ==
    { MkBuf([Good EXCEPT !.hr = h, !.min = mi, !.sec = s,
                         !.year = y, !.month = mo, !.day = d]) :
        h \in {ToU32(10), ToU32(23), ToU32(24)},
        mi \in {ToU32(0), ToU32(60)},
        s \in {ToU32(59), ToU32(60)},
        y \in {ToU32(21), ToU32(24), <<3, 63536>>, <<32768, 0>>,
               <<65535, 65535>>},
        mo \in {ToU32(0), ToU32(2), ToU32(12), ToU32(13), <<1, 1>>},
        d \in {ToU32(0), ToU32(1), ToU32(29), ToU32(30), ToU32(31), ToU32(32)} }

\* accepted headers with every combination of hemisphere, position and speed
CoordBufs ==
    { MkBuf([Good EXCEPT !.lath = a, !.lonh = o, !.lat = la, !.lon = lo,
                         !.speed = sp]) :
        a \in {78, 83}, o \in {69, 87},
        la \in {F32_0, F32_4730, F32_4730_5, F32_NaN},
        lo \in {F32_11706_5, F32_90},
        sp \in {F32_0, F32_1} }

GpsBufs == ValidatorBufs \cup DateBufs \cup CoordBufs

\* packed degrees-minutes values 100*D + M, D in 0..MaxDeg and a few larger,
\* M on the whole grid of [0, 100), and their negations
DmsInputs ==
    LET den == Pow2(FracBits)
    IN  { FFin(sg * (100 * den * D + M), den) :
            sg \in {1, -1}, D \in (0..MaxDeg) \cup {47, 117, 180},
            M \in 0..(100 * den - 1) }
        \cup {FNonFinite}

(***************************************************************************)
(* Paths.  A path is the sequence of its components; a component is        *)
(* <<rank, name>>, the rank following the declaration order of             *)
(* std::path::Component (ParentDir = 3, Normal = 4), the name a str.       *)
(***************************************************************************)
ParentDir == <<3, << >> >>
Normal(name) == <<4, name>>

\* Ord of Component, then of Path (component-wise, lexicographic)
CompLess(a, b) == a[1] < b[1] \/ (a[1] = b[1] /\ LexLess(a[2], b[2]))

RECURSIVE PathLess(_, _)
PathLess(p, q) ==
    IF Len(q) = 0 THEN FALSE
    ELSE IF Len(p) = 0 THEN TRUE
    ELSE IF CompLess(p[1], q[1]) THEN TRUE
    ELSE IF CompLess(q[1], p[1]) THEN FALSE
    ELSE PathLess(Tail(p), Tail(q))

\* Path::file_name: the last component when it is a normal one
file_name(p) ==
    IF Len(p) > 0 /\ p[Len(p)][1] = 4 THEN OkVal(p[Len(p)][2]) ELSE None

\* "a/b", "ab/a", "ab/b", "..", "out.gpx"
PathA_B == <<Normal(<<97>>), Normal(<<98>>)>>
PathAb_A == <<Normal(<<97, 98>>), Normal(<<97>>)>>
PathAb_B == <<Normal(<<97, 98>>), Normal(<<98>>)>>
PathUp == <<ParentDir>>
PathOut == <<Normal(<<111>>)>>
InputPaths == {PathA_B, PathAb_A, PathAb_B, PathUp}

\* what the glob iterator yields: paths and read errors
GlobError == [ok |-> FALSE, path |-> << >>]
GlobOk(p) == [ok |-> TRUE, path |-> p]
RECURSIVE SeqsUpTo(_, _)
SeqsUpTo(S, n) ==
    IF n = 0 THEN {<< >>}
    ELSE LET shorter == SeqsUpTo(S, n - 1)
         IN  shorter \cup {Append(q, x) : q \in shorter, x \in S}
GlobResults == SeqsUpTo({GlobOk(p) : p \in InputPaths} \cup {GlobError}, MaxGlob)

\* variant: the greatest element first
greatest(paths) == CHOOSE p \in paths : \A q \in paths : q = p \/ PathLess(q, p)

\* BTreeSet iteration: the least element first
least(paths) == CHOOSE p \in paths : \A q \in paths : q = p \/ PathLess(p, q)

(***************************************************************************)
(* Input files: what File::open and Mp4Reader::read_header find at a path. *)
(***************************************************************************)
Rec_1000 == MkBuf(Good)
Rec_0900 == MkBuf([Good EXCEPT !.hr = ToU32(9), !.lat = F32_4730_5])
Rec_0900_64 ==
    MkBuf([Good EXCEPT !.hr = ToU32(9), !.len = 64, !.declared = ToU32(64),
                       !.lath = 83, !.lonh = 69, !.lat = F32_0])
Rec_2020 ==
    MkBuf([Good EXCEPT !.year = ToU32(20), !.month = ToU32(12),
                       !.day = ToU32(31), !.hr = ToU32(23),
                       !.min = ToU32(59), !.sec = ToU32(59)])
Rec_NoLock == MkBuf([Good EXCEPT !.lock = 86])
Rec_BadUtf8 == MkBuf([Good EXCEPT !.typ = <<255, 114, 101, 101>>])
Rec_Month13 == MkBuf([Good EXCEPT !.month = ToU32(13)])
Rec_YearMax == MkBuf([Good EXCEPT !.year = <<65535, 65535>>])

Block(offset, size) == [offset |-> offset, size |-> size]

FileLib == <<
    \* cannot be opened
    [kind |-> "open_err", bytes |-> << >>, blocks |-> << >>],
    \* the container header cannot be parsed
    [kind |-> "header_err", bytes |-> << >>, blocks |-> << >>],
    \* a container without a GPS box
    [kind |-> "no_gps", bytes |-> Zeros(8), blocks |-> << >>],
    \* one record, 10:00:00
    [kind |-> "gps", bytes |-> Zeros(8) \o Rec_1000,
     blocks |-> <<Block(8, 60)>>],
    \* one record, 09:00:00
    [kind |-> "gps", bytes |-> Rec_0900, blocks |-> <<Block(0, 60)>>],
    \* 09:00:00, no lock, 09:00:00 (64 bytes), the same read short, 2020
    [kind |-> "gps",
     bytes |-> Rec_0900 \o Rec_NoLock \o Rec_0900_64 \o Rec_2020,
     blocks |-> <<Block(0, 60), Block(60, 60), Block(120, 64),
                  Block(120, 59), Block(184, 60)>>],
    \* bad box type, year field 2^32 - 1, 10:00:00, month 13, 09:00:00
    [kind |-> "gps",
     bytes |-> Rec_BadUtf8 \o Rec_YearMax \o Rec_1000 \o Rec_Month13
               \o Rec_0900,
     blocks |-> <<Block(0, 60), Block(60, 60), Block(120, 60),
                  Block(180, 60), Block(240, 60)>>],
    \* 10:00:00, then a block reaching past the end of the file
    [kind |-> "gps", bytes |-> Rec_1000,
     blocks |-> <<Block(0, 60), Block(30, 60)>>],
    \* a GPS box without blocks
    [kind |-> "gps", bytes |-> Zeros(8), blocks |-> << >>]
>>
FileIds == 1..Len(FileLib)

\* seek(Start(offset)), buf.clear(), buf.resize(size, 0), read_exact(buf)
ReadExact(bytes, b) ==
    IF b.offset + b.size <= Len(bytes)
    THEN OkVal(SubSeq(bytes, b.offset + 1, b.offset + b.size))
    ELSE [kind |-> "Io",
          val |-> IF b.offset >= Len(bytes) THEN Zeros(b.size)
                  ELSE SubSeq(bytes, b.offset + 1, Len(bytes))
                       \o Zeros(b.offset + b.size - Len(bytes))]

(***************************************************************************)
(* Sorting.  slice::sort_by and sort_by_key are stable; the result of a    *)
(* stable sort is determined by the comparison, here computed by           *)
(* insertions.                                                             *)
(***************************************************************************)
\* is a before b in the given mode
cmp_less(mode, a, b) ==
    IF mode = "File" THEN LexLess(a.file_name, b.file_name)
    ELSE LexLess(a.datetime, b.datetime)

\* variant: insert x behind the last element that is less than x
insert_before_equal(mode, s, x) ==
    LET keep == {i \in 1..Len(s) : cmp_less(mode, s[i], x)}
        k == IF keep = {} THEN 0 ELSE CHOOSE i \in keep : \A j \in keep : j <= i
    IN  SubSeq(s, 1, k) \o <<x>> \o SubSeq(s, k + 1, Len(s))

\* insert x behind the last element that is not greater than x
insert_tail(mode, s, x) ==
    LET keep == {i \in 1..Len(s) : ~cmp_less(mode, x, s[i])}
        k == IF keep = {} THEN 0 ELSE CHOOSE i \in keep : \A j \in keep : j <= i
    IN  SubSeq(s, 1, k) \o <<x>> \o SubSeq(s, k + 1, Len(s))

RECURSIVE sort_by(_, _)
sort_by(mode, s) ==
    IF Len(s) = 0 THEN << >>
    ELSE insert_tail(mode, sort_by(mode, SubSeq(s, 1, Len(s) - 1)), s[Len(s)])

\* match opts.sort { .. }
sorted(mode, items) == IF mode = "None" THEN items ELSE sort_by(mode, items)

\* the waypoint built from a GpsData
waypoint(gps) ==
    [point |-> <<gps.longitude, gps.latitude>>, time |-> gps.datetime,
     source |-> gps.file_name, speed |-> gps.speed,
     fix |-> "TwoDimensional", sat |-> 3]

\* variant: the force flag is read the wrong way round
refuse_output_when_forced(force, exists) == force /\ exists

\* if !opts.force && opts.output.exists()
refuse_output(force, exists) == ~force /\ exists

\* exitcode::SOFTWARE, and the status of a panicking process
SOFTWARE == 70
PANIC_STATUS == 101

(***************************************************************************)
(* State.                                                                  *)
(***************************************************************************)
VARIABLES
    overflow_checks, \* the build: are integer overflow checks compiled in
    \* validator and decoder applied to one buffer
    g_pc,            \* position in the sequence of calls
    g_buf,           \* the buffer handed to NovatekGps::new
    g_res,           \* the result of NovatekGps::new
    g_data,          \* the fields decoded so far
    \* dms_to_deg applied to one value
    c_dms, c_invert, c_out,
    \* the run of do_main
    pc,              \* position in do_main
    opts,            \* the parsed command line
    output,          \* the output path: "absent", "existing", "created", "written"
    exit,            \* the run's error and the process status, once it ended
    input_paths,     \* the BTreeSet of paths still to be iterated
    visited,         \* history: the paths taken from the set, in order, each
                     \* with the file found there (0: never opened)
    cur,             \* the file being read: path, base name, content, block index
    buf,             \* the scratch buffer
    gps_items,       \* the run-wide collection
    points           \* the waypoints handed to the writer

gvars == <<g_pc, g_buf, g_res, g_data, c_dms, c_invert, c_out>>
pvars == <<pc, opts, output, exit, input_paths, visited, cur, buf, gps_items,
           points>>
vars == <<overflow_checks, gvars, pvars>>

NoData == [datetime |-> None, latitude |-> None, longitude |-> None,
           speed |-> None, course |-> None]

\* the decoder variables while do_main runs
GIdle ==
    /\ g_pc = "idle" /\ g_buf = << >> /\ g_res = None /\ g_data = NoData
    /\ c_dms = None /\ c_invert = FALSE /\ c_out = None

\* the variables of do_main while a single buffer is decoded
PIdle ==
    /\ pc = "idle" /\ opts = None /\ output = "absent" /\ exit = None
    /\ input_paths = {} /\ visited = << >> /\ cur = None /\ buf = << >>
    /\ gps_items = << >> /\ points = << >>

GInit ==
    /\ PIdle
    /\ overflow_checks \in BOOLEAN
    /\ g_res = None
    /\ g_data = NoData
    /\ c_out = None
    /\ \/ g_pc = "new" /\ g_buf \in GpsBufs /\ c_dms = None /\ c_invert = FALSE
       \/ /\ g_pc = "dms_to_deg" /\ g_buf = << >>
          /\ c_dms \in DmsInputs /\ c_invert \in BOOLEAN

\* NovatekGps::new(&buf[..])
GNew ==
    /\ g_pc = "new"
    /\ g_res' = new(g_buf)
    /\ g_pc' = IF IsOk(new(g_buf)) THEN "datetime" ELSE "rejected"
    /\ UNCHANGED <<overflow_checks, pvars, g_buf, g_data, c_dms, c_invert, c_out>>

\* gps.datetime()
GDatetime ==
    /\ g_pc = "datetime"
    /\ LET r == datetime(g_buf, overflow_checks)
       IN  /\ g_data' = [g_data EXCEPT !.datetime = r]
           /\ g_pc' = IF IsOk(r) THEN "latitude_deg" ELSE "panicked"
    /\ UNCHANGED <<overflow_checks, pvars, g_buf, g_res, c_dms, c_invert, c_out>>

\* gps.latitude_deg()
GLatitudeDeg ==
    /\ g_pc = "latitude_deg"
    /\ g_data' = [g_data EXCEPT !.latitude = latitude_deg(g_buf)]
    /\ g_pc' = "longitude_deg"
    /\ UNCHANGED <<overflow_checks, pvars, g_buf, g_res, c_dms, c_invert, c_out>>

\* gps.longitude_deg()
GLongitudeDeg ==
    /\ g_pc = "longitude_deg"
    /\ g_data' = [g_data EXCEPT !.longitude = longitude_deg(g_buf)]
    /\ g_pc' = "speed_mps"
    /\ UNCHANGED <<overflow_checks, pvars, g_buf, g_res, c_dms, c_invert, c_out>>

\* gps.speed_mps()
GSpeedMps ==
    /\ g_pc = "speed_mps"
    /\ g_data' = [g_data EXCEPT !.speed = OkVal(speed_mps(g_buf))]
    /\ g_pc' = "bearing"
    /\ UNCHANGED <<overflow_checks, pvars, g_buf, g_res, c_dms, c_invert, c_out>>

\* gps.bearing()
GBearing ==
    /\ g_pc = "bearing"
    /\ g_data' = [g_data EXCEPT !.course = OkVal(bearing(g_buf))]
    /\ g_pc' = "decoded"
    /\ UNCHANGED <<overflow_checks, pvars, g_buf, g_res, c_dms, c_invert, c_out>>

\* Self::dms_to_deg(dms, invert)
GDmsToDeg ==
    /\ g_pc = "dms_to_deg"
    /\ c_out' = dms_to_deg(c_dms, c_invert)
    /\ g_pc' = "converted"
    /\ UNCHANGED <<overflow_checks, pvars, g_buf, g_res, g_data, c_dms, c_invert>>

GNext ==
    \/ GNew
    \/ GDatetime
    \/ GLatitudeDeg
    \/ GLongitudeDeg
    \/ GSpeedMps
    \/ GBearing
    \/ GDmsToDeg

SpecGps == GInit /\ [][GNext]_vars

(***************************************************************************)
(* The run of do_main.                                                     *)
(***************************************************************************)
SortingModes == {"File", "GpsDate", "None"}

Init ==
    /\ GIdle
    /\ overflow_checks \in BOOLEAN
    /\ pc = "start"
    /\ opts \in [force : BOOLEAN, sort : SortingModes,
                 output : {PathOut, PathUp}, input_ok : BOOLEAN]
    /\ output \in {"absent", "existing"}
    /\ opts.output = PathUp => output = "existing"
    /\ exit = None
    /\ input_paths = {}
    /\ visited = << >>
    /\ cur = None
    /\ buf = << >>
    /\ gps_items = << >>
    /\ points = << >>

\* `return Err(e)` or `?` in do_main, then main: log and exit(SOFTWARE)
Fail(e) ==
    /\ pc' = "failed"
    /\ exit' = [err |-> e, status |-> SOFTWARE]

\* the existence check and the metadata of the document
CheckOutput ==
    /\ pc = "start"
    /\ IF refuse_output(opts.force, output # "absent")
       THEN Fail("OutputFileExists")
       ELSE IF ~IsOk(file_name(opts.output))
       THEN Fail("PathNotFile")
       ELSE pc' = "create" /\ exit' = exit
    /\ UNCHANGED <<overflow_checks, gvars, opts, output, input_paths, visited,
                   cur, buf, gps_items, points>>

\* File::create(&opts.output)?
CreateOutput ==
    /\ pc = "create"
    /\ \E ok \in BOOLEAN :
          IF ok THEN output' = "created" /\ pc' = "glob" /\ exit' = exit
          ELSE Fail("Io") /\ output' = output
    /\ UNCHANGED <<overflow_checks, gvars, opts, input_paths, visited, cur,
                   buf, gps_items, points>>

\* glob(&opts.input)? and the collection of its entries into the BTreeSet
Glob ==
    /\ pc = "glob"
    /\ IF ~opts.input_ok
       THEN Fail("Glob") /\ input_paths' = input_paths
       ELSE \E res \in GlobResults :
               /\ input_paths' = {res[i].path : i \in {j \in 1..Len(res) :
                                                       res[j].ok}}
               /\ pc' = "files" /\ exit' = exit
    /\ UNCHANGED <<overflow_checks, gvars, opts, output, visited, cur, buf,
                   gps_items, points>>

\* one turn of `for input in input_paths.into_iter()` up to the block loop
NextFile ==
    /\ pc = "files"
    /\ input_paths # {}
    /\ LET input == least(input_paths)
           name == file_name(input)
       IN  /\ input_paths' = input_paths \ {input}
           /\ IF ~IsOk(name)
              THEN /\ Fail("PathNotFile") /\ cur' = cur
                   /\ visited' = Append(visited, [path |-> input, fid |-> 0])
              ELSE \E fid \in FileIds :
                      LET f == FileLib[fid]
                      IN  /\ visited' =
                             Append(visited, [path |-> input, fid |-> fid])
                          /\ IF f.kind = "open_err"
                             THEN Fail("Io") /\ cur' = cur
                             ELSE IF f.kind = "header_err"
                             THEN Fail("Mp4") /\ cur' = cur
                             ELSE IF f.kind = "no_gps"
                             THEN pc' = "files" /\ exit' = exit /\ cur' = cur
                             ELSE /\ pc' = "blocks" /\ exit' = exit
                                  /\ cur' = [path |-> input,
                                             file_name |-> name.val,
                                             fid |-> fid, idx |-> 0]
    /\ UNCHANGED <<overflow_checks, gvars, opts, output, buf, gps_items,
                   points>>

\* the file loop is exhausted
EndOfFiles ==
    /\ pc = "files"
    /\ input_paths = {}
    /\ pc' = "sort"
    /\ UNCHANGED <<overflow_checks, gvars, opts, output, exit, input_paths,
                   visited, cur, buf, gps_items, points>>

\* one turn of `for (idx, b) in gps_box.data_blocks.iter().enumerate()`
NextBlock ==
    /\ pc = "blocks"
    /\ cur.idx < Len(FileLib[cur.fid].blocks)
    /\ LET f == FileLib[cur.fid]
           b == f.blocks[cur.idx + 1]
           rd == ReadExact(f.bytes, b)
           gps == new(rd.val)
           dt == datetime(rd.val, overflow_checks)
           lat == latitude_deg(rd.val)
           lon == longitude_deg(rd.val)
       IN  /\ buf' = rd.val
           /\ IF ~IsOk(rd)
              THEN Fail("Io") /\ UNCHANGED <<cur, gps_items>>
              ELSE IF ~IsOk(gps)
              THEN /\ cur' = [cur EXCEPT !.idx = cur.idx + 1]
                   /\ UNCHANGED <<pc, exit, gps_items>>
              ELSE IF ~IsOk(dt)
              THEN /\ pc' = "panicked"
                   /\ exit' = [err |-> "panic", status |-> PANIC_STATUS]
                   /\ UNCHANGED <<cur, gps_items>>
              ELSE IF ~IsOk(lat) \/ ~IsOk(lon)
              THEN Fail("Gps") /\ UNCHANGED <<cur, gps_items>>
              ELSE /\ gps_items' = Append(gps_items,
                         [file_name |-> cur.file_name,
                          datetime |-> dt.val,
                          latitude |-> lat.val,
                          longitude |-> lon.val,
                          speed |-> speed_mps(rd.val),
                          course |-> bearing(rd.val),
                          \* history: where the record comes from
                          src |-> [path |-> cur.path, idx |-> cur.idx,
                                   fid |-> cur.fid]])
                   /\ cur' = [cur EXCEPT !.idx = cur.idx + 1]
                   /\ UNCHANGED <<pc, exit>>
    /\ UNCHANGED <<overflow_checks, gvars, opts, output, input_paths, visited,
                   points>>

\* the block loop is exhausted
EndOfBlocks ==
    /\ pc = "blocks"
    /\ cur.idx = Len(FileLib[cur.fid].blocks)
    /\ pc' = "files"
    /\ UNCHANGED <<overflow_checks, gvars, opts, output, exit, input_paths,
                   visited, cur, buf, gps_items, points>>

\* match opts.sort { .. }
Sort ==
    /\ pc = "sort"
    /\ gps_items' = sorted(opts.sort, gps_items)
    /\ pc' = "write"
    /\ UNCHANGED <<overflow_checks, gvars, opts, output, exit, input_paths,
                   visited, cur, buf, points>>

\* the waypoints, the track and gpx::write(&gpx, output_file)?
Write ==
    /\ pc = "write"
    /\ points' = [i \in 1..Len(gps_items) |-> waypoint(gps_items[i])]
    /\ \E ok \in BOOLEAN :
          IF ok
          THEN /\ output' = "written" /\ pc' = "done"
               /\ exit' = [err |-> "none", status |-> 0]
          ELSE Fail("Gpx") /\ output' = output
    /\ UNCHANGED <<overflow_checks, gvars, opts, input_paths, visited, cur,
                   buf, gps_items>>

Next ==
    \/ CheckOutput
    \/ CreateOutput
    \/ Glob
    \/ NextFile
    \/ EndOfFiles
    \/ NextBlock
    \/ EndOfBlocks
    \/ Sort
    \/ Write

Spec == Init /\ [][Next]_vars

(***************************************************************************)
(* Properties of the validator and the decoder (specification SpecGps).    *)
(***************************************************************************)
\* the conditions of section 4.1 of the specification, read off the bytes
LenOk(b) == Len(b) >= 60
SizeOk(b) ==
    /\ b[1] = 0 /\ b[2] = 0
    /\ b[3] * 256 + b[4] = Len(b)
TypeOk(b) == <<b[5], b[6], b[7], b[8]>> = <<102, 114, 101, 101>>
MagicOk(b) == <<b[9], b[10], b[11], b[12]>> = <<71, 80, 83, 32>>
LockOk(b) == b[41] = 65
HemiOk(b) == b[42] \in {78, 83} /\ b[43] \in {69, 87}
Validated == g_res # None

\* C1: NovatekGps::new reports the first failing check in the order length,
\* self-declared size, box type, magic word, satellite lock, hemisphere
\* (MissingBytes for every buffer shorter than 60 bytes), and succeeds only
\* if all six checks pass.
C1_FirstFailingCheck ==
    Validated =>
        IF ~LenOk(g_buf) THEN g_res.kind = "MissingBytes"
        ELSE IF ~SizeOk(g_buf) THEN g_res.kind = "InvalidBoxSize"
        ELSE IF ~TypeOk(g_buf) THEN g_res.kind \in {"InvalidBoxType", "Uft8"}
        ELSE IF ~MagicOk(g_buf) THEN g_res.kind \in {"InvalidMagicWord", "Uft8"}
        ELSE IF ~LockOk(g_buf) THEN g_res.kind = "NoSatLock"
        ELSE IF ~HemiOk(g_buf) THEN g_res.kind = "InvalidHemisphere"
        ELSE g_res.kind = "Ok"

\* a buffer failing the size, the magic, the lock and the hemisphere checks
\* at once has been validated
C1_Witness ==
    /\ Validated /\ LenOk(g_buf)
    /\ ~SizeOk(g_buf) /\ TypeOk(g_buf) /\ ~MagicOk(g_buf)
    /\ ~LockOk(g_buf) /\ ~HemiOk(g_buf)
    /\ g_res.kind = "InvalidBoxSize"

\* the declared length differs from the buffer's length
Mismatch(b) == Len(b) >= 4 /\ ~SizeOk(b)
Declared(b) == <<b[1] * 256 + b[2], b[3] * 256 + b[4]>>

\* C2 as stated: every buffer whose first four bytes (big-endian) differ from
\* its length is rejected with InvalidBoxSize(length, declared length).
C2_AlwaysInvalidBoxSize ==
    (Validated /\ Mismatch(g_buf)) =>
        /\ g_res.kind = "InvalidBoxSize"
        /\ g_res.buf_len = Len(g_buf)
        /\ g_res.box_size = Declared(g_buf)

\* C2 amended: every buffer of at least 60 bytes whose first four bytes
\* (big-endian) differ from its length is rejected with
\* InvalidBoxSize(length, declared length), whatever its other fields.
C2_InvalidBoxSizeFrom60 ==
    (Validated /\ LenOk(g_buf) /\ Mismatch(g_buf)) =>
        /\ g_res.kind = "InvalidBoxSize"
        /\ g_res.buf_len = Len(g_buf)
        /\ g_res.box_size = Declared(g_buf)

\* a 64-byte buffer declaring 60 bytes, all other fields valid, was rejected
C2_Witness ==
    /\ Validated /\ Len(g_buf) = 64 /\ Declared(g_buf) = <<0, 60>>
    /\ TypeOk(g_buf) /\ MagicOk(g_buf) /\ LockOk(g_buf) /\ HemiOk(g_buf)
    /\ g_res.kind = "InvalidBoxSize"

RecordLevelKinds ==
    {"MissingBytes", "InvalidBoxSize", "InvalidBoxType", "InvalidMagicWord",
     "NoSatLock", "InvalidHemisphere"}
TypeBytes(b) == <<b[5], b[6], b[7], b[8]>>

\* C3 as stated: past the length and size checks, any four bytes other than
\* "free" at offsets 4..8 give InvalidBoxType(actual, "free"), and every
\* outcome is success or one of the six record-level kinds.
C3_AlwaysInvalidBoxType ==
    Validated =>
        /\ g_res.kind \in RecordLevelKinds \cup {"Ok"}
        /\ (LenOk(g_buf) /\ SizeOk(g_buf) /\ ~TypeOk(g_buf)) =>
              /\ g_res.kind = "InvalidBoxType"
              /\ g_res.actual = TypeBytes(g_buf)
              /\ g_res.expected = <<102, 114, 101, 101>>

\* C3 amended: past the length and size checks, four bytes at offsets 4..8
\* that are well-formed UTF-8 other than "free" give
\* InvalidBoxType(actual, "free") and four bytes that are not well-formed
\* UTF-8 give the UTF-8 error; every outcome is success, one of the six
\* record-level kinds or the UTF-8 error.
C3_InvalidBoxTypeOrUtf8 ==
    Validated =>
        /\ g_res.kind \in RecordLevelKinds \cup {"Ok", "Uft8"}
        /\ (LenOk(g_buf) /\ SizeOk(g_buf) /\ ~TypeOk(g_buf)) =>
              IF Utf8Valid(TypeBytes(g_buf))
              THEN /\ g_res.kind = "InvalidBoxType"
                   /\ g_res.actual = TypeBytes(g_buf)
                   /\ g_res.expected = <<102, 114, 101, 101>>
              ELSE g_res.kind = "Uft8"

\* a buffer whose box type is the non-ASCII string "éee" was rejected
C3_Witness ==
    /\ Validated /\ LenOk(g_buf) /\ SizeOk(g_buf)
    /\ TypeBytes(g_buf) = <<195, 169, 101, 101>>
    /\ g_res.kind = "InvalidBoxType"

\* the u32 stored at offsets 28..32, when it is below 2^31 - 2000
StoredYear(b) == (b[32] * 256 + b[31]) * 65536 + b[30] * 256 + b[29]
StoredYearSmall(b) == b[32] * 256 + b[31] < 32767

\* C4 as stated: on every accepted buffer datetime(), latitude_deg(),
\* longitude_deg(), speed_mps() and bearing() return a value without an
\* error and without aborting, whatever the date and time fields hold, and
\* the decoded year is the stored u32 plus 2000.
C4_DecodingCannotFail ==
    (Validated /\ IsOk(g_res)) =>
        /\ g_pc # "panicked"
        /\ \A f \in {"datetime", "latitude", "longitude", "speed", "course"} :
              g_data[f] # None => IsOk(g_data[f])
        /\ g_data.datetime # None =>
              /\ StoredYearSmall(g_buf)
              /\ g_data.datetime.val[1] = StoredYear(g_buf) + 2000

\* exact value of D + M/60 for the packed value n/den = 100*D + M
DegreesOf(n, den) ==
    [cls |-> "fin",
     n |-> 300 * den * (n \div (100 * den)) + 5 * (n % (100 * den)),
     den |-> 300 * den]
Negated(x) == IF x.cls = "fin" THEN [x EXCEPT !.n = -x.n] ELSE x
F32Value(b, off) ==
    LittleEndian_read_f32(<<b[off + 1], b[off + 2], b[off + 3], b[off + 4]>>)

\* C10: for every packed value v = 100*D + M with D >= 0 and 0 <= M < 100,
\* dms_to_deg(v, false) = D + M/60 and dms_to_deg(v, true) is its negation
\* (0 -> 0, 4730 -> 47.5 and -47.5); latitude_deg negates exactly when the
\* hemisphere byte is 'S', longitude_deg exactly when it is 'W'.
C10_DmsToDeg ==
    /\ (g_pc = "converted" /\ c_dms.cls = "fin" /\ c_dms.n >= 0) =>
          /\ c_out = IF c_invert THEN Negated(DegreesOf(c_dms.n, c_dms.den))
                     ELSE DegreesOf(c_dms.n, c_dms.den)
          /\ c_dms.n = 0 => c_out.n = 0
          /\ c_dms.n = 4730 * c_dms.den =>
                2 * c_out.n = (IF c_invert THEN -95 ELSE 95) * c_out.den
    /\ g_data.latitude # None =>
          /\ IsOk(g_data.latitude)
          /\ LET v == F32Value(g_buf, 44)
                 d == IF v.cls = "fin" /\ v.n >= 0
                      THEN DegreesOf(v.n, v.den) ELSE v
             IN  g_data.latitude.val =
                    IF g_buf[42] = 83 THEN Negated(d) ELSE d
    /\ g_data.longitude # None =>
          /\ IsOk(g_data.longitude)
          /\ LET v == F32Value(g_buf, 48)
                 d == IF v.cls = "fin" /\ v.n >= 0
                      THEN DegreesOf(v.n, v.den) ELSE v
             IN  g_data.longitude.val =
                    IF g_buf[43] = 87 THEN Negated(d) ELSE d

\* dms_to_deg(4730.0, true) has returned -47.5
C10_Witness ==
    /\ g_pc = "converted" /\ c_invert
    /\ c_dms.cls = "fin" /\ c_dms.n = 4730 * c_dms.den
    /\ c_out.cls = "fin" /\ 2 * c_out.n = -95 * c_out.den

(***************************************************************************)
(* Properties of the run (specification Spec).                             *)
(***************************************************************************)
\* the bytes of the block a record or a loop position refers to
BlockOf(src) == FileLib[src.fid].blocks[src.idx + 1]
InFile(src) ==
    BlockOf(src).offset + BlockOf(src).size <= Len(FileLib[src.fid].bytes)
BytesOf(src) ==
    SubSeq(FileLib[src.fid].bytes, BlockOf(src).offset + 1,
           BlockOf(src).offset + BlockOf(src).size)

\* all six conditions of section 4.1 on the bytes of a block
PassesAll(b) ==
    /\ LenOk(b) /\ SizeOk(b) /\ TypeOk(b) /\ MagicOk(b)
    /\ LockOk(b) /\ HemiOk(b)

\* the block the loop is about to read
AtBlock == pc = "blocks" /\ cur.idx < Len(FileLib[cur.fid].blocks)
CurSrc == [path |-> cur.path, idx |-> cur.idx, fid |-> cur.fid]

\* validation, decoding or conversion of the block about to be read fails
CurBlockFails ==
    /\ InFile(CurSrc)
    /\ \/ ~PassesAll(BytesOf(CurSrc))
       \/ ~IsOk(datetime(BytesOf(CurSrc), overflow_checks))

\* the file taken from the set in this step has no GPS box
TookFileWithoutGps ==
    /\ pc = "files"
    /\ Len(visited') = Len(visited) + 1
    /\ visited'[Len(visited')].fid # 0
    /\ FileLib[visited'[Len(visited')].fid].kind = "no_gps"

\* C5 as stated: a block whose validation, decoding or conversion fails
\* appends nothing and the loop goes on to the next block of the same file;
\* a file without a GPS box appends nothing and the loop goes on to the next
\* file; neither ends the run.
SkipsAndGoesOn ==
    /\ (AtBlock /\ CurBlockFails) =>
          /\ pc' = "blocks"
          /\ cur' = [cur EXCEPT !.idx = cur.idx + 1]
          /\ gps_items' = gps_items
          /\ exit' = None
    /\ TookFileWithoutGps =>
          /\ pc' = "files"
          /\ gps_items' = gps_items
          /\ exit' = None

C5_FailuresNeverEndTheRun == [][SkipsAndGoesOn]_vars

\* position of a path in the order the files were taken
VisitIndex(path) == CHOOSE k \in 1..Len(visited) : visited[k].path = path

\* r1's block was read before r2's
ReadBefore(s1, s2) ==
    \/ VisitIndex(s1.path) < VisitIndex(s2.path)
    \/ s1.path = s2.path /\ s1.idx < s2.idx

ArrivalOrder(items) ==
    \A i, j \in 1..Len(items) :
        i < j <=> ReadBefore(items[i].src, items[j].src)

SortActed == pc \in {"write", "done"} \/ (pc = "failed" /\ exit.err = "Gpx")

AppendOnly ==
    pc \in {"start", "create", "glob", "files", "blocks"} =>
        \/ gps_items' = gps_items
        \/ /\ Len(gps_items') = Len(gps_items) + 1
           /\ SubSeq(gps_items', 1, Len(gps_items)) = gps_items

\* C6: the collection only grows by appending while files are read and is in
\* arrival order (order of the files, then block index); the files are taken
\* in ascending order of their path, each once; in sort mode none the
\* waypoints handed to the writer are in that order.
C6_ArrivalOrder ==
    /\ [](/\ \A k \in 1..Len(visited) : \A l \in 1..Len(visited) :
                k < l => PathLess(visited[k].path, visited[l].path)
          /\ \A i \in 1..Len(gps_items) :
                \E k \in 1..Len(visited) : visited[k].path = gps_items[i].src.path
          /\ (~SortActed \/ opts.sort = "None") => ArrivalOrder(gps_items)
          /\ (pc = "done" /\ opts.sort = "None") =>
                /\ Len(points) = Len(gps_items)
                /\ \A i \in 1..Len(points) :
                      /\ points[i].source = gps_items[i].file_name
                      /\ points[i].time = gps_items[i].datetime
                      /\ points[i].point =
                            <<gps_items[i].longitude, gps_items[i].latitude>>)
    /\ [][AppendOnly]_vars

\* a run in mode none has written records of three files, among them a
\* file with several records and a later file with an earlier timestamp
C6_Witness ==
    /\ pc = "done" /\ opts.sort = "None"
    /\ Cardinality({gps_items[i].src.path : i \in 1..Len(gps_items)}) = 3
    /\ \E i, j \in 1..Len(gps_items) :
          /\ i < j /\ gps_items[i].src.path = gps_items[j].src.path
    /\ \E i, j \in 1..Len(gps_items) :
          /\ i < j /\ LexLess(gps_items[j].datetime, gps_items[i].datetime)
          /\ LexLess(gps_items[j].file_name, gps_items[i].file_name)

\* the key of a record in a sort mode
KeyOf(mode, r) == IF mode = "File" THEN r.file_name ELSE r.datetime
IndexIn(items, r) == CHOOSE k \in 1..Len(items) : items[k] = r

\* out is the stable ascending rearrangement of in
StablySorted(mode, in, out) ==
    /\ Len(out) = Len(in)
    /\ \A k \in 1..Len(in) : \E i \in 1..Len(out) : out[i] = in[k]
    /\ \A i, j \in 1..Len(out) :
          i < j =>
             /\ ~LexLess(KeyOf(mode, out[j]), KeyOf(mode, out[i]))
             /\ KeyOf(mode, out[i]) = KeyOf(mode, out[j]) =>
                   IndexIn(in, out[i]) < IndexIn(in, out[j])

\* the two records of the end-to-end example: a at 10:00:00, b at 09:00:00
IsExample(in) ==
    /\ Len(in) = 2
    /\ in[1].file_name = <<97>> /\ in[2].file_name = <<98>>
    /\ in[1].datetime = <<2021, 8, 9, 36000>>
    /\ in[2].datetime = <<2021, 8, 9, 32400>>

SortStep ==
    (pc = "sort" /\ opts.sort # "None") =>
        /\ StablySorted(opts.sort, gps_items, gps_items')
        /\ IsExample(gps_items) =>
              gps_items' = IF opts.sort = "File" THEN gps_items
                           ELSE <<gps_items[2], gps_items[1]>>

\* C7: in modes file and gps the sorter returns a permutation of the
\* collection, ascending in the mode's key (base name, timestamp), in which
\* records of equal key keep their order; [a 10:00:00, b 09:00:00] becomes
\* [a, b] in mode file and [b, a] in mode gps.
C7_StableSort == [][SortStep]_vars

\* mode gps has moved a record forward and kept records of three files
\* with equal timestamps in arrival order
C7_Witness ==
    /\ pc = "write" /\ opts.sort = "GpsDate"
    /\ \E i, j \in 1..Len(gps_items) :
          i < j /\ ReadBefore(gps_items[j].src, gps_items[i].src)
    /\ \E i, j \in 1..Len(gps_items) :
          /\ i < j /\ gps_items[i].datetime = gps_items[j].datetime
          /\ gps_items[i].src.path # gps_items[j].src.path

\* the blocks the loops have gone past
Processed ==
    UNION { LET n == IF cur # None /\ cur.path = visited[k].path
                     THEN cur.idx
                     ELSE Len(FileLib[visited[k].fid].blocks)
            IN  {[path |-> visited[k].path, idx |-> i, fid |-> visited[k].fid] :
                   i \in 0..(n - 1)} :
            k \in {l \in 1..Len(visited) : visited[l].fid # 0} }

\* C8: every record of the collection comes from a block whose buffer, of
\* exactly the block's declared size, passed all six checks; a block without
\* satellite lock contributes no record and every accepted block exactly one.
C8_RecordsAreValidated ==
    /\ \A i \in 1..Len(gps_items) :
          LET src == gps_items[i].src
          IN  /\ InFile(src)
              /\ Len(BytesOf(src)) = BlockOf(src).size
              /\ BlockOf(src).size >= 60
              /\ PassesAll(BytesOf(src))
              /\ src \in Processed
    /\ \A src \in Processed :
          Cardinality({i \in 1..Len(gps_items) : gps_items[i].src = src})
             = IF InFile(src) /\ PassesAll(BytesOf(src)) THEN 1 ELSE 0
    /\ Len(points) > 0 => Len(points) = Len(gps_items)

\* a run has been written in which a block without satellite lock and a
\* block read short were skipped and three records of the same file kept
C8_Witness ==
    /\ pc = "done"
    /\ \E src \in Processed :
          LET b == BytesOf(src)
          IN  /\ LenOk(b) /\ SizeOk(b) /\ TypeOk(b) /\ MagicOk(b) /\ HemiOk(b)
              /\ ~LockOk(b)
              /\ Cardinality({i \in 1..Len(gps_items) :
                                gps_items[i].src.path = src.path}) = 3
    /\ \E src \in Processed : ~LenOk(BytesOf(src))

\* the output path exists and overwriting was not allowed
Refused == output = "existing" /\ ~opts.force

RefusedStep == Refused => (output' = "existing" /\ pc' = "failed")

\* C9: when the output path exists and --force was not given the run ends
\* with OutputFileExists and a non-zero status, the output file is neither
\* created nor truncated, no input is opened and no record is extracted.
C9_OutputFileExists ==
    /\ [](Refused =>
            /\ pc \in {"start", "failed"}
            /\ pc = "failed" =>
                  exit.err = "OutputFileExists" /\ exit.status # 0
            /\ visited = << >> /\ input_paths = {} /\ cur = None
            /\ gps_items = << >> /\ points = << >>)
    /\ [][RefusedStep]_vars

\* the run has ended on the existing output file
C9_Witness ==
    /\ pc = "failed" /\ exit.err = "OutputFileExists"
    /\ output = "existing" /\ ~opts.force

====
